---------------------------- MODULE Spec2Model ----------------------------
(***************************************************************************)
(* Model of the external-duty scheduler (src/optimizer.py) and of the      *)
(* schedule sheets it is saved to (src/database.py).                       *)
(*                                                                         *)
(* solve_schedule builds the slot set, a 0/1 model with five families of   *)
(* hard constraints and a weighted objective, hands it to CBC through PuLP *)
(* with a 30 s time limit and extracts the assignment list.                *)
(* generate_multiple_plans calls it once per weighting profile.            *)
(*                                                                         *)
(* Dates are modelled by their rank in ISO order (1 is the first eligible  *)
(* date of the month): the code only compares date strings for equality    *)
(* and sorts them.  Worker and location identities are integers, as in the *)
(* id columns of the sheets.  Affinity weights are the integers 0, 1, 2    *)
(* (NEVER, POSSIBLE, MUST) and 3 and 5 (values that are none of the        *)
(* three).  A month is the rank of its schedule sheet's year_month; the    *)
(* calls of save_schedule, confirm_schedule, delete_schedule and           *)
(* update_schedule_assignments are atomic steps, one after the other.      *)
(***************************************************************************)
EXTENDS Integers, Sequences, FiniteSets, TLC

(* ---- bounds of the model ---- *)
MaxDoctors == 2
MaxClinics == 2
MaxSaturdays == 2
(* the Saturdays of one calendar month *)
MaxMonthSaturdays == 5
(* the months that have a schedule sheet *)
MaxMonths == 2
(* the largest id a schedule sheet hands out *)
MaxId == 2

DoctorIds == 1..MaxDoctors
ClinicIds == 1..MaxClinics
Dates == 1..MaxSaturdays

(* ---- constants of src/optimizer.py ---- *)
PRIORITY_MUST == 2
PRIORITY_POSSIBLE == 1
PRIORITY_NEVER == 0

(* the absent result of solve_schedule *)
None == [status |-> "None"]
(* value of a local that has not been assigned yet *)
Unset == "unset"
NoResult == [status |-> Unset]

VARIABLES
    doctors,            \* set of worker ids of the doctors list (doc_ids)
    clinics,            \* location id -> [frequency, fee, preferred_doctors]
    saturdays,          \* ascending sequence of eligible dates
    preferences,        \* set of [doctor_id, ng_dates, avoid_dates, preferred_clinics]
    affinities,         \* set of [doctor_id, clinic_id, weight]
    previous_earnings,  \* worker id -> carried-over earnings (partial)
    date_overrides,     \* <<clinic_id, date>> -> required count (partial)
    mode,               \* weighting profile of the running solve_schedule
    caller,             \* "solve_schedule" or "generate_multiple_plans"
    pc,                 \* position in solve_schedule / generate_multiple_plans
    slots,              \* set of <<clinic_id, date>>
    slot_required,      \* slot -> required count
    built,              \* TRUE once the variables x[...] of the model exist
    solver_calls,       \* number of prob.solve calls so far
    status,             \* pulp.LpStatus[status] after the solve
    sol_status,         \* prob.sol_status after the solve
    x,                  \* set of <<doctor_id, clinic_id, date>> with value 1
    result,             \* value returned by solve_schedule
    mode_i,             \* index of the profile in generate_multiple_plans
    plans,              \* list built by generate_multiple_plans
    runs,               \* history: what each solve_schedule call of the batch returned
    filtered,           \* history: the values the direct calls of get_clinic_dates returned
    probs,              \* history: the models solve_schedule built, in call order
    sheets              \* the schedule sheets of the spreadsheet, in worksheet order

inputs == <<doctors, clinics, saturdays, preferences, affinities,
            previous_earnings, date_overrides>>
locals == <<slots, slot_required, built, status, sol_status, x, result>>
vars == <<doctors, clinics, saturdays, preferences, affinities,
          previous_earnings, date_overrides, mode, caller, pc, slots,
          slot_required, built, solver_calls, status, sol_status, x, result,
          mode_i, plans, runs, filtered, probs, sheets>>

(* ---- helpers ---- *)
Range(s) == {s[i] : i \in DOMAIN s}

RECURSIVE SumOver(_, _)
SumOver(S, f) ==
    IF S = {} THEN 0
    ELSE LET e == CHOOSE e \in S : TRUE IN f[e] + SumOver(S \ {e}, f)

Abs(n) == IF n < 0 THEN -n ELSE n

(* the elements of s whose 0-based index i satisfies i % 2 = r *)
RECURSIVE EveryOther(_, _, _)
EveryOther(s, i, r) ==
    IF i >= Len(s) THEN <<>>
    ELSE (IF i % 2 = r THEN <<s[i + 1]>> ELSE <<>>) \o EveryOther(s, i + 1, r)

(* variant: a pattern that is none of the five gives no date *)
get_clinic_dates_unknown_empty(clinic, sats) ==
    LET freq == IF "frequency" \in DOMAIN clinic THEN clinic.frequency
                ELSE "weekly" IN
    IF freq = "weekly" THEN sats
    ELSE IF freq = "biweekly_odd" THEN EveryOther(sats, 0, 0)
    ELSE IF freq = "biweekly_even" THEN EveryOther(sats, 0, 1)
    ELSE IF freq = "first_only" THEN
        (IF sats # <<>> THEN SubSeq(sats, 1, 1) ELSE <<>>)
    ELSE IF freq = "last_only" THEN
        (IF sats # <<>> THEN SubSeq(sats, Len(sats), Len(sats)) ELSE <<>>)
    ELSE <<>>

(* variant: first_only drops the first date instead of keeping it *)
get_clinic_dates_drop_first(clinic, sats) ==
    LET freq == IF "frequency" \in DOMAIN clinic THEN clinic.frequency
                ELSE "weekly" IN
    IF freq = "weekly" THEN sats
    ELSE IF freq = "biweekly_odd" THEN EveryOther(sats, 0, 0)
    ELSE IF freq = "biweekly_even" THEN EveryOther(sats, 0, 1)
    ELSE IF freq = "first_only" THEN
        (IF sats # <<>> THEN SubSeq(sats, 2, Len(sats)) ELSE <<>>)
    ELSE IF freq = "last_only" THEN
        (IF sats # <<>> THEN SubSeq(sats, Len(sats), Len(sats)) ELSE <<>>)
    ELSE sats

(* variant: the biweekly patterns select by the parity of the calendar week *)
get_clinic_dates_by_week(clinic, sats) ==
    LET freq == IF "frequency" \in DOMAIN clinic THEN clinic.frequency
                ELSE "weekly" IN
    IF freq = "weekly" THEN sats
    ELSE IF freq = "biweekly_odd" THEN SelectSeq(sats, LAMBDA ds : ds % 2 = 1)
    ELSE IF freq = "biweekly_even" THEN SelectSeq(sats, LAMBDA ds : ds % 2 = 0)
    ELSE IF freq = "first_only" THEN
        (IF sats # <<>> THEN SubSeq(sats, 1, 1) ELSE <<>>)
    ELSE IF freq = "last_only" THEN
        (IF sats # <<>> THEN SubSeq(sats, Len(sats), Len(sats)) ELSE <<>>)
    ELSE sats

(* get_clinic_dates: the dates of a location by its recurrence pattern *)
get_clinic_dates(clinic, sats) ==
    LET freq == IF "frequency" \in DOMAIN clinic THEN clinic.frequency
                ELSE "weekly" IN
    IF freq = "weekly" THEN sats
    ELSE IF freq = "biweekly_odd" THEN EveryOther(sats, 0, 0)
    ELSE IF freq = "biweekly_even" THEN EveryOther(sats, 0, 1)
    ELSE IF freq = "first_only" THEN
        (IF sats # <<>> THEN SubSeq(sats, 1, 1) ELSE <<>>)
    ELSE IF freq = "last_only" THEN
        (IF sats # <<>> THEN SubSeq(sats, Len(sats), Len(sats)) ELSE <<>>)
    ELSE sats

(* overrides.get((c["id"], ds), 1) *)
OverrideGet(c, ds) ==
    IF <<c, ds>> \in DOMAIN date_overrides THEN date_overrides[<<c, ds>>] ELSE 1

(* variant: a closed date still gives a slot *)
BuildSlotSetKeepClosed ==
    {<<c, ds>> \in (DOMAIN clinics) \X Dates :
        ds \in Range(get_clinic_dates(clinics[c], saturdays))}

(* variant: an override with a positive count opens a slot of its own *)
BuildSlotSetOverrideOpens ==
    {<<c, ds>> \in (DOMAIN clinics) \X Dates :
        \/ /\ ds \in Range(get_clinic_dates(clinics[c], saturdays))
           /\ OverrideGet(c, ds) # 0
        \/ /\ <<c, ds>> \in DOMAIN date_overrides
           /\ date_overrides[<<c, ds>>] > 0}

(* the slot loop of solve_schedule: a date whose count is 0 gives no slot *)
BuildSlotSet ==
    {<<c, ds>> \in (DOMAIN clinics) \X Dates :
        /\ ds \in Range(get_clinic_dates(clinics[c], saturdays))
        /\ OverrideGet(c, ds) # 0}

(* variant: every slot asks for one worker, whatever the override *)
BuildSlotRequiredDefault == [s \in BuildSlotSet |-> 1]

(* slot_required[(c["id"], ds)] = req *)
BuildSlotRequired == [s \in BuildSlotSet |-> OverrideGet(s[1], s[2])]

(* ---- the maps solve_schedule builds from its inputs ---- *)

(* ng_map.get(doc_id, set()) *)
ng_map(d) ==
    IF \E p \in preferences : p.doctor_id = d
    THEN (CHOOSE p \in preferences : p.doctor_id = d).ng_dates ELSE {}

(* avoid_map.get(doc_id, set()) *)
avoid_map(d) ==
    IF \E p \in preferences : p.doctor_id = d
    THEN (CHOOSE p \in preferences : p.doctor_id = d).avoid_dates ELSE {}

(* pref_clinics_map.get(doc_id, set()) *)
pref_clinics_map(d) ==
    IF \E p \in preferences : p.doctor_id = d
    THEN (CHOOSE p \in preferences : p.doctor_id = d).preferred_clinics ELSE {}

(* clinic_preferred.get(cid, set()) *)
clinic_preferred(c) ==
    IF c \in DOMAIN clinics THEN clinics[c].preferred_doctors ELSE {}

(* (did, cid) in priority_map *)
HasPriority(d, c) == \E a \in affinities : a.doctor_id = d /\ a.clinic_id = c

(* priority_map[(did, cid)] *)
priority_map(d, c) ==
    (CHOOSE a \in affinities : a.doctor_id = d /\ a.clinic_id = c).weight

(* priority_map.get((did, cid), 0) *)
PriorityGet(d, c) == IF HasPriority(d, c) THEN priority_map(d, c) ELSE 0

(* variant: every weight from MUST upwards counts as MUST *)
must_pairs_at_least(d) ==
    {c \in ClinicIds : HasPriority(d, c) /\ priority_map(d, c) >= PRIORITY_MUST}

(* must_pairs.get(doc_id, []) *)
must_pairs(d) ==
    {c \in ClinicIds : HasPriority(d, c) /\ priority_map(d, c) = PRIORITY_MUST}

(* variant: the NEVER test compares with < instead of == *)
never_pairs_below(d) ==
    {c \in ClinicIds : HasPriority(d, c) /\ priority_map(d, c) < PRIORITY_NEVER}

(* variant: a pair without record counts as NEVER, like its weight 0 *)
never_pairs_by_default(d) ==
    {c \in ClinicIds : PriorityGet(d, c) = PRIORITY_NEVER}

(* never_pairs.get(doc_id, []) *)
never_pairs(d) ==
    {c \in ClinicIds : HasPriority(d, c) /\ priority_map(d, c) = PRIORITY_NEVER}

(* fee_map.get(cid, 0) *)
fee_map(c) == IF c \in DOMAIN clinics THEN clinics[c].fee ELSE 0

(* prev.get(doc_id, 0) *)
PrevGet(d) ==
    IF d \in DOMAIN previous_earnings THEN previous_earnings[d] ELSE 0

(* ---- hard constraints over an assignment xs of the variables ---- *)

(* the variables of one slot *)
SlotVars(s) == {<<d, s[1], s[2]>> : d \in doctors}

(* variant: coverage as an upper bound *)
SlotCoveredAtMost(row, s) == Cardinality(row) <= slot_required[s]

(* 1. coverage of one slot: lpSum(x[doc, cid, ds]) == req *)
SlotCovered(row, s) == Cardinality(row) = slot_required[s]

(* variant: the slots of a date are matched on the whole slot, not the date *)
OnePerSlot(xs) ==
    \A d \in doctors : \A s0 \in slots :
        Cardinality({s \in slots : s = s0 /\ <<d, s[1], s[2]>> \in xs}) <= 1

(* 2. at most one duty per worker and date *)
OnePerDay(xs) ==
    \A d \in doctors : \A ds \in {s[2] : s \in slots} :
        Cardinality({s \in slots : s[2] = ds /\ <<d, s[1], ds>> \in xs}) <= 1

(* variant: the rule reads the soft-avoid dates instead of the NG dates *)
NgOkAvoid(xs) ==
    \A d \in doctors : \A s \in slots :
        s[2] \in avoid_map(d) => <<d, s[1], s[2]>> \notin xs

(* 3. NG dates: x == 0 *)
NgOk(xs) ==
    \A d \in doctors : \A s \in slots :
        s[2] \in ng_map(d) => <<d, s[1], s[2]>> \notin xs

(* variant: the NEVER rows are added under the balanced profile only *)
NeverOkBalancedOnly(xs) ==
    mode = "balanced" =>
        \A d \in doctors : \A c \in never_pairs(d) : \A s \in slots :
            s[1] = c => <<d, c, s[2]>> \notin xs

(* 4. NEVER locations: x == 0 *)
NeverOk(xs) ==
    \A d \in doctors : \A c \in never_pairs(d) : \A s \in slots :
        s[1] = c => <<d, c, s[2]>> \notin xs

(* variant: the MUST row asks for >= 0 *)
MustOkAtLeastZero(xs) ==
    \A d \in doctors : \A c \in must_pairs(d) :
        LET clinic_slots == {s \in slots : s[1] = c} IN
        clinic_slots # {} =>
            Cardinality({s \in clinic_slots : <<d, s[1], s[2]>> \in xs}) >= 0

(* variant: the MUST row is added also when the location has no slot *)
MustOkUnguarded(xs) ==
    \A d \in doctors : \A c \in must_pairs(d) :
        LET clinic_slots == {s \in slots : s[1] = c} IN
        Cardinality({s \in clinic_slots : <<d, s[1], s[2]>> \in xs}) >= 1

(* variant: a MUST row is added for every worker id of the records *)
MustOkAnyWorker(xs) ==
    \A d \in DoctorIds : \A c \in must_pairs(d) :
        LET clinic_slots == {s \in slots : s[1] = c} IN
        clinic_slots # {} =>
            Cardinality({s \in clinic_slots : <<d, s[1], s[2]>> \in xs}) >= 1

(* 5. MUST locations: at least one duty there, when the location has a slot *)
MustOk(xs) ==
    \A d \in doctors : \A c \in must_pairs(d) :
        LET clinic_slots == {s \in slots : s[1] = c} IN
        clinic_slots # {} =>
            Cardinality({s \in clinic_slots : <<d, s[1], s[2]>> \in xs}) >= 1

(* the 0/1 assignments of the variables of the slots S that meet the
   coverage row of each slot *)
RECURSIVE CoveredRows(_)
CoveredRows(S) ==
    IF S = {} THEN {{}}
    ELSE LET s == CHOOSE s \in S : TRUE
             rows == {r \in SUBSET SlotVars(s) : SlotCovered(r, s)}
         IN {r \cup rest : r \in rows, rest \in CoveredRows(S \ {s})}

(* the assignments of the slots of one date that meet constraints 1 to 4 *)
DayFeasible(ds) ==
    {xs \in CoveredRows({s \in slots : s[2] = ds}) :
        OnePerDay(xs) /\ NgOk(xs) /\ NeverOk(xs)}

(* the unions of one element of DayFeasible per date of D *)
RECURSIVE DaysFeasible(_)
DaysFeasible(D) ==
    IF D = {} THEN {{}}
    ELSE LET ds == CHOOSE ds \in D : TRUE
         IN {xs \cup rest : xs \in DayFeasible(ds), rest \in DaysFeasible(D \ {ds})}

(* the assignments that meet all hard constraints: constraints 1 to 4 bind
   the variables of one date only, constraint 5 those of one location *)
Feasible == {xs \in DaysFeasible({s[2] : s \in slots}) : MustOk(xs)}

(* ---- objective ---- *)

(* the six coefficients of a profile: w_var, w_pref, w_nom, w_pri, w_avoid, w_cnt *)
ModeWeights(m) ==
    IF m = "balanced" THEN
        [w_var |-> 10, w_pref |-> -1, w_nom |-> -2, w_pri |-> -1, w_avoid |-> 3, w_cnt |-> 5]
    ELSE IF m = "preference" THEN
        [w_var |-> 2, w_pref |-> -5, w_nom |-> -3, w_pri |-> -2, w_avoid |-> 3, w_cnt |-> 3]
    ELSE IF m = "affinity" THEN
        [w_var |-> 2, w_pref |-> -2, w_nom |-> -2, w_pri |-> -5, w_avoid |-> 3, w_cnt |-> 3]
    ELSE
        [w_var |-> 5, w_pref |-> -2, w_nom |-> -2, w_pri |-> -2, w_avoid |-> 3, w_cnt |-> 5]

(* all(fee_map.get(cid, 0) == 0 for cid in fee_map) *)
AllFeesZero == \A c \in DOMAIN clinics : fee_map(c) = 0

(* variant: the profile's coefficient whatever the fees *)
WVarOfProfile(m) == ModeWeights(m).w_var

(* w_var after the zero-fee rule *)
WVar(m) == IF AllFeesZero THEN 0 ELSE ModeWeights(m).w_var

(* earnings[doc_id]: fees of the worker's duties in xs *)
Earnings(xs, d) ==
    LET mine == {t \in xs : t[1] = d}
    IN SumOver(mine, [t \in mine |-> fee_map(t[2])])

(* total_earnings[doc_id] *)
TotalEarnings(xs, d) == Earnings(xs, d) + PrevGet(d)

(* count_per_doc[doc_id] *)
CountPerDoc(xs, d) == Cardinality({t \in xs : t[1] = d})

(* n_docs * sum over workers of |v[d] - mean(v)|: the L1 term the two slack
   variables of a worker take at the minimum, times n_docs to stay integral *)
L1DevN(v) ==
    LET n == Cardinality(doctors)
        total == SumOver(doctors, v)
    IN SumOver(doctors, [d \in doctors |-> Abs(n * v[d] - total)])

VarianceTermN(xs) == L1DevN([d \in doctors |-> TotalEarnings(xs, d)])

CountVarianceN(xs) == L1DevN([d \in doctors |-> CountPerDoc(xs, d)])

PreferenceTerm(xs) == Cardinality({t \in xs : t[2] \in pref_clinics_map(t[1])})

NominationTerm(xs) == Cardinality({t \in xs : t[1] \in clinic_preferred(t[2])})

PriorityTerm(xs) == SumOver(xs, [t \in xs |-> PriorityGet(t[1], t[2])])

(* variant: a duty on a soft-avoid date counts as a gain *)
AvoidPenaltyAsGain(xs) == - Cardinality({t \in xs : t[3] \in avoid_map(t[1])})

AvoidPenalty(xs) == Cardinality({t \in xs : t[3] \in avoid_map(t[1])})

(* variant: the objective without the two balance terms *)
ObjectiveNNoBalance(xs, m) ==
    LET w == ModeWeights(m)
        n == Cardinality(doctors)
    IN n * (w.w_pref * PreferenceTerm(xs)
            + w.w_nom * NominationTerm(xs)
            + w.w_pri * PriorityTerm(xs)
            + w.w_avoid * AvoidPenalty(xs))

(* n_docs times the objective value of xs under profile m *)
ObjectiveN(xs, m) ==
    LET w == ModeWeights(m)
        n == Cardinality(doctors)
    IN WVar(m) * VarianceTermN(xs)
       + n * (w.w_pref * PreferenceTerm(xs)
              + w.w_nom * NominationTerm(xs)
              + w.w_pri * PriorityTerm(xs)
              + w.w_avoid * AvoidPenalty(xs))
       + w.w_cnt * CountVarianceN(xs)

(* the assignments of F of least objective value under profile m *)
Optimal(F, m) ==
    UNION {{xs \in F : \A ys \in F : obj[xs] <= obj[ys]} :
              obj \in {[xs \in F |-> ObjectiveN(xs, m)]}}

(* ---- result extraction ---- *)

Assignments(xs) ==
    {[date |-> t[3], clinic_id |-> t[2], doctor_id |-> t[1]] : t \in xs}

(* variant: a nomination by the location does not count *)
SatisfactionNoNomination(as) ==
    SumOver(as, [a \in as |->
        (IF a.clinic_id \in pref_clinics_map(a.doctor_id) THEN 1 ELSE 0)
        + PriorityGet(a.doctor_id, a.clinic_id)])

(* satisfaction score of an assignment list *)
Satisfaction(as) ==
    SumOver(as, [a \in as |->
        (IF a.clinic_id \in pref_clinics_map(a.doctor_id) THEN 1 ELSE 0)
        + (IF a.doctor_id \in clinic_preferred(a.clinic_id) THEN 1 ELSE 0)
        + PriorityGet(a.doctor_id, a.clinic_id)])

(* variant: the earnings of the result include the carried-over earnings *)
ResultOfWithCarryOver(xs, st) ==
    LET as == Assignments(xs) IN
    [assignments |-> as,
     doctor_earnings |->
        [d \in doctors |->
            LET mine == {a \in as : a.doctor_id = d}
            IN SumOver(mine, [a \in mine |-> fee_map(a.clinic_id)]) + PrevGet(d)],
     doctor_counts |->
        [d \in doctors |-> Cardinality({a \in as : a.doctor_id = d})],
     satisfaction_score |-> Satisfaction(as),
     status |-> st]

(* the record solve_schedule returns (total_variance, a float, is left out) *)
ResultOf(xs, st) ==
    LET as == Assignments(xs) IN
    [assignments |-> as,
     doctor_earnings |->
        [d \in doctors |->
            LET mine == {a \in as : a.doctor_id = d}
            IN SumOver(mine, [a \in mine |-> fee_map(a.clinic_id)])],
     doctor_counts |->
        [d \in doctors |-> Cardinality({a \in as : a.doctor_id = d})],
     satisfaction_score |-> Satisfaction(as),
     status |-> st]

(* variant: only a proven optimum is accepted *)
AcceptedProvenOptimal(st, sol) == st = "Optimal" /\ sol = "Optimal Solution Found"

(* pulp.LpStatus[status] != "Optimal" is the only test of the solve *)
Accepted(st, sol) == st = "Optimal"

(* ---- inputs ---- *)

(* the profiles of generate_multiple_plans, in its order, with their labels *)
Modes ==
    << <<"balanced", "plan A: pay balance">>,
       <<"preference", "plan B: preferences">>,
       <<"affinity", "plan C: affinities">> >>

ModeNames == {Modes[i][1] : i \in DOMAIN Modes}

EmptyMap == [k \in {} |-> 0]

DoctorInputs == {1..n : n \in 0..MaxDoctors}

SaturdayInputs == {[i \in 1..k |-> i] : k \in 0..MaxSaturdays}

ClinicInputs ==
    UNION {[1..m -> [frequency : {"weekly", "biweekly_even"},
                     fee : {1000},
                     preferred_doctors : {{}}]] : m \in 0..MaxClinics}

(* no preference record, or one record with one NG date *)
PreferenceInputs ==
    {{}} \cup
    {{[doctor_id |-> d, ng_dates |-> {ds}, avoid_dates |-> {},
       preferred_clinics |-> {}]} : d \in DoctorIds, ds \in Dates}

(* no affinity record, or one record of weight NEVER or MUST *)
AffinityInputs ==
    {{}} \cup
    {{[doctor_id |-> d, clinic_id |-> c, weight |-> w]} :
        d \in DoctorIds, c \in ClinicIds,
        w \in {PRIORITY_NEVER, PRIORITY_MUST}}

(* no override, one override closing a date or asking for two workers, or
   every date of every location closed *)
OverrideInputs ==
    {EmptyMap} \cup
    {[k \in {<<c, ds>>} |-> r] : c \in ClinicIds, ds \in Dates, r \in {0, 2}}
    \cup {[k \in ClinicIds \X Dates |-> 0]}

InitLocals ==
    /\ slots = {}
    /\ slot_required = EmptyMap
    /\ built = FALSE
    /\ status = Unset
    /\ sol_status = Unset
    /\ x = {}
    /\ result = NoResult

(* the number of kinds of record (preference, affinity, override) present *)
RecordKinds ==
    (IF preferences = {} THEN 0 ELSE 1)
    + (IF affinities = {} THEN 0 ELSE 1)
    + (IF date_overrides = EmptyMap THEN 0 ELSE 1)

(* a direct call of solve_schedule: an input with at most one record under
   each profile, an input with two records of different kinds under the
   balanced profile *)
Init ==
    /\ doctors \in DoctorInputs
    /\ clinics \in ClinicInputs
    /\ saturdays \in SaturdayInputs
    /\ preferences \in PreferenceInputs
    /\ affinities \in AffinityInputs
    /\ previous_earnings = EmptyMap
    /\ date_overrides \in OverrideInputs
    /\ mode \in ModeNames
    /\ RecordKinds <= (IF mode = "balanced" THEN 2 ELSE 1)
    /\ caller = "solve_schedule"
    /\ pc = "slots"
    /\ InitLocals
    /\ solver_calls = 0
    /\ mode_i = 0
    /\ plans = <<>>
    /\ runs = <<>>
    /\ filtered = <<>>
    /\ probs = <<>>
    /\ sheets = <<>>

(* ---- solve_schedule ---- *)

(* variant: no early return on an empty slot set *)
BuildSlotsNoEarlyReturn ==
    /\ pc = "slots"
    /\ slots' = BuildSlotSet
    /\ slot_required' = BuildSlotRequired
    /\ pc' = "build"
    /\ UNCHANGED <<inputs, runs, filtered, probs, sheets, mode, caller, built, solver_calls, status,
                   sol_status, x, result, mode_i, plans>>

(* variant: slot generation uses the override map up *)
BuildSlotsConsumeOverrides ==
    /\ pc = "slots"
    /\ slots' = BuildSlotSet
    /\ slot_required' = BuildSlotRequired
    /\ date_overrides' = EmptyMap
    /\ IF BuildSlotSet = {}
       THEN /\ result' = None
            /\ pc' = "returned"
       ELSE /\ result' = result
            /\ pc' = "build"
    /\ UNCHANGED <<doctors, clinics, saturdays, preferences, affinities,
                   previous_earnings, runs, filtered, probs, sheets,
                   mode, caller, built, solver_calls, status, sol_status, x,
                   mode_i, plans>>

(* slot generation; no slot: return None at once *)
BuildSlots ==
    /\ pc = "slots"
    /\ slots' = BuildSlotSet
    /\ slot_required' = BuildSlotRequired
    /\ IF BuildSlotSet = {}
       THEN /\ result' = None
            /\ pc' = "returned"
       ELSE /\ result' = result
            /\ pc' = "build"
    /\ UNCHANGED <<inputs, runs, filtered, probs, sheets, mode, caller, built, solver_calls, status,
                   sol_status, x, mode_i, plans>>

(* variables, constraints and objective; the mean divides by n_docs *)
BuildModel ==
    /\ pc = "build"
    /\ built' = TRUE
    /\ pc' = IF Cardinality(doctors) = 0 THEN "raised" ELSE "solve"
    /\ UNCHANGED <<inputs, runs, filtered, probs, sheets, mode, caller, slots, slot_required, solver_calls,
                   status, sol_status, x, result, mode_i, plans>>

SolveFrame ==
    /\ pc = "solve"
    /\ pc' = "extract"
    /\ solver_calls' = solver_calls + 1
    /\ UNCHANGED <<inputs, runs, filtered, probs, sheets, mode, caller, slots, slot_required, built, result,
                   mode_i, plans>>

(* CBC proves an optimum within the time limit *)
SolveOptimal ==
    /\ SolveFrame
    /\ x' \in Optimal(Feasible, mode)
    /\ status' = "Optimal"
    /\ sol_status' = "Optimal Solution Found"

(* CBC proves within the time limit that no assignment exists *)
SolveInfeasible ==
    /\ SolveFrame
    /\ Feasible = {}
    /\ x' = {}
    /\ status' = "Infeasible"
    /\ sol_status' = "No Solution Exists"

(* the time limit ends the search with an incumbent: PuLP reports the
   status Optimal and the solution status Solution Found *)
SolveTimeLimitIncumbent ==
    /\ SolveFrame
    /\ x' \in Feasible
    /\ status' = "Optimal"
    /\ sol_status' = "Solution Found"

(* the time limit ends the search with no incumbent *)
SolveTimeLimitNone ==
    /\ SolveFrame
    /\ x' = {}
    /\ status' = "Not Solved"
    /\ sol_status' = "No Solution Found"

(* status test and result extraction *)
Return ==
    /\ pc = "extract"
    /\ result' = IF Accepted(status, sol_status) THEN ResultOf(x, status) ELSE None
    /\ pc' = "returned"
    /\ UNCHANGED <<inputs, runs, filtered, probs, sheets, mode, caller, slots, slot_required, built,
                   solver_calls, status, sol_status, x, mode_i, plans>>

Next ==
    \/ BuildSlots
    \/ BuildModel
    \/ SolveOptimal
    \/ SolveInfeasible
    \/ SolveTimeLimitIncumbent
    \/ SolveTimeLimitNone
    \/ Return

Spec == Init /\ [][Next]_vars

(* ---- generate_multiple_plans ---- *)

(* a call of generate_multiple_plans *)
InitPlans ==
    /\ doctors \in DoctorInputs
    /\ clinics \in ClinicInputs
    /\ saturdays \in SaturdayInputs
    /\ preferences = {}
    /\ affinities \in AffinityInputs
    /\ previous_earnings = EmptyMap
    /\ date_overrides \in OverrideInputs
    /\ mode = Unset
    /\ caller = "generate_multiple_plans"
    /\ pc = "plan_loop"
    /\ InitLocals
    /\ solver_calls = 0
    /\ mode_i = 1
    /\ plans = <<>>
    /\ runs = <<>>
    /\ filtered = <<>>
    /\ probs = <<>>
    /\ sheets = <<>>

(* for mode, label in modes: result = solve_schedule(..., mode=mode, ...) *)
PlanCall ==
    /\ pc = "plan_loop"
    /\ mode_i <= Len(Modes)
    /\ mode' = Modes[mode_i][1]
    /\ pc' = "slots"
    /\ slots' = {}
    /\ slot_required' = EmptyMap
    /\ built' = FALSE
    /\ status' = Unset
    /\ sol_status' = Unset
    /\ x' = {}
    /\ result' = NoResult
    /\ UNCHANGED <<inputs, runs, filtered, probs, sheets, caller, solver_calls, mode_i, plans>>

(* variant: a tagged result is put in front of the list *)
PlanCollectPrepend ==
    /\ pc = "returned"
    /\ caller = "generate_multiple_plans"
    /\ plans' = IF result # None
                THEN <<result @@ [plan_name |-> Modes[mode_i][2],
                                  mode |-> Modes[mode_i][1]]>> \o plans
                ELSE plans
    /\ runs' = Append(runs, [mode |-> mode, result |-> result,
                              sol_status |-> sol_status])
    /\ mode_i' = mode_i + 1
    /\ pc' = "plan_loop"
    /\ UNCHANGED <<inputs, filtered, probs, sheets, mode, caller, locals, solver_calls>>

(* if result: tag it with the label and the profile and append it *)
PlanCollect ==
    /\ pc = "returned"
    /\ caller = "generate_multiple_plans"
    /\ plans' = IF result # None
                THEN Append(plans, result @@ [plan_name |-> Modes[mode_i][2],
                                              mode |-> Modes[mode_i][1]])
                ELSE plans
    /\ runs' = Append(runs, [mode |-> mode, result |-> result,
                              sol_status |-> sol_status])
    /\ mode_i' = mode_i + 1
    /\ pc' = "plan_loop"
    /\ UNCHANGED <<inputs, filtered, probs, sheets, mode, caller, locals, solver_calls>>

(* return plans *)
PlanReturn ==
    /\ pc = "plan_loop"
    /\ mode_i > Len(Modes)
    /\ pc' = "plans_returned"
    /\ UNCHANGED <<inputs, runs, filtered, probs, sheets, mode, caller, locals, solver_calls, mode_i, plans>>

NextPlans ==
    \/ Next
    \/ PlanCall
    \/ PlanCollect
    \/ PlanReturn

SpecPlans == InitPlans /\ [][NextPlans]_vars

(* ---- get_clinic_dates called on its own ---- *)

(* the elements of S in ascending order *)
RECURSIVE Ascending(_)
Ascending(S) ==
    IF S = {} THEN <<>>
    ELSE LET m == CHOOSE m \in S : \A e \in S : m <= e
         IN <<m>> \o Ascending(S \ {m})

(* get_target_saturdays: the Saturdays of the month that are no holiday, in
   calendar order; a date is the rank of its Saturday in the month *)
MonthSaturdayInputs == {Ascending(S) : S \in SUBSET (1..MaxMonthSaturdays)}

KnownFrequencies ==
    {"weekly", "biweekly_odd", "biweekly_even", "first_only", "last_only"}

(* a location of each known pattern, of an unknown pattern, of no pattern *)
PatternClinics ==
    {[frequency |-> f, fee |-> 1000, preferred_doctors |-> {}] :
        f \in KnownFrequencies \cup {"monthly"}}
    \cup {[fee |-> 1000, preferred_doctors |-> {}]}

InitDates ==
    /\ doctors = {}
    /\ clinics \in [{1} -> PatternClinics]
    /\ saturdays \in MonthSaturdayInputs
    /\ preferences = {}
    /\ affinities = {}
    /\ previous_earnings = EmptyMap
    /\ date_overrides = EmptyMap
    /\ mode = Unset
    /\ caller = "get_clinic_dates"
    /\ pc = "dates"
    /\ InitLocals
    /\ solver_calls = 0
    /\ mode_i = 0
    /\ plans = <<>>
    /\ runs = <<>>
    /\ filtered = <<>>
    /\ probs = <<>>
    /\ sheets = <<>>

(* get_clinic_dates(clinic, saturdays), then the same call on its own output *)
GetClinicDates ==
    /\ pc = "dates"
    /\ Len(filtered) < 2
    /\ filtered' = Append(filtered,
                         get_clinic_dates(clinics[1],
                             IF filtered = <<>> THEN saturdays
                             ELSE filtered[Len(filtered)]))
    /\ UNCHANGED <<inputs, runs, probs, sheets, mode, caller, pc, locals, solver_calls,
                   mode_i, plans>>

NextDates == GetClinicDates

SpecDates == InitDates /\ [][NextDates]_vars

(* ---- get_clinic_dates on its own or through solve_schedule, for
        locations of every pattern ---- *)

(* solve_schedule under the balanced profile, without records, for
   locations of a known, an unknown or no pattern *)
InitPatterns ==
    /\ doctors \in DoctorInputs
    /\ clinics \in UNION {[1..m -> PatternClinics] : m \in 0..MaxClinics}
    /\ saturdays \in SaturdayInputs
    /\ preferences = {}
    /\ affinities = {}
    /\ previous_earnings = EmptyMap
    /\ date_overrides = EmptyMap
    /\ mode = "balanced"
    /\ caller = "solve_schedule"
    /\ pc = "slots"
    /\ InitLocals
    /\ solver_calls = 0
    /\ mode_i = 0
    /\ plans = <<>>
    /\ runs = <<>>
    /\ filtered = <<>>
    /\ probs = <<>>
    /\ sheets = <<>>

NextPatterns ==
    \/ GetClinicDates
    \/ Next

SpecPatterns == (InitDates \/ InitPatterns) /\ [][NextPatterns]_vars

(* ---- solve_schedule on inputs that carry the soft data of the
        objective ---- *)

(* weekly locations with fees 1000 or 2000, or all with fee 0 *)
ObjectiveClinicInputs ==
    UNION {[1..m -> [frequency : {"weekly"}, fee : {1000, 2000},
                     preferred_doctors : {{}}]]
           \cup [1..m -> [frequency : {"weekly"}, fee : {0},
                          preferred_doctors : {{}}]] : m \in 0..MaxClinics}

(* The soft data name worker 1, location 1 and date 1: the workers are
   alike but for their id, the dates too, and the fees of the locations
   run over every combination. *)

(* location 1 nominates worker 1 *)
NominationInputs ==
    {[cl EXCEPT ![1].preferred_doctors = {1}] :
        cl \in ObjectiveClinicInputs \ {<<>>}}

(* worker 1 prefers location 1 *)
PreferredClinicInputs ==
    {{[doctor_id |-> 1, ng_dates |-> {}, avoid_dates |-> {},
       preferred_clinics |-> {1}]}}

(* worker 1 would rather avoid date 1 *)
AvoidDateInputs ==
    {{[doctor_id |-> 1, ng_dates |-> {}, avoid_dates |-> {1},
       preferred_clinics |-> {}]}}

(* one affinity record of weight POSSIBLE or MUST for worker 1 at location 1 *)
SoftAffinityInputs ==
    {{[doctor_id |-> 1, clinic_id |-> 1, weight |-> w]} :
        w \in {PRIORITY_POSSIBLE, PRIORITY_MUST}}

(* worker 1 carries earnings of earlier months *)
PreviousEarningsInputs == {[k \in {1} |-> 2000]}

(* location 1 asks for two workers on date 1 *)
DoubleSlotInputs == {[k \in {<<1, 1>>} |-> 2]}

(* a direct call of solve_schedule with at most one piece of soft data *)
InitObjective ==
    /\ doctors \in DoctorInputs
    /\ saturdays \in SaturdayInputs
    /\ mode \in ModeNames
    /\ \/ /\ clinics \in ObjectiveClinicInputs
          /\ preferences = {}
          /\ affinities = {}
          /\ previous_earnings = EmptyMap
          /\ date_overrides = EmptyMap
       \/ /\ clinics \in NominationInputs
          /\ preferences = {}
          /\ affinities = {}
          /\ previous_earnings = EmptyMap
          /\ date_overrides = EmptyMap
       \/ /\ clinics \in ObjectiveClinicInputs
          /\ preferences \in PreferredClinicInputs \cup AvoidDateInputs
          /\ affinities = {}
          /\ previous_earnings = EmptyMap
          /\ date_overrides = EmptyMap
       \/ /\ clinics \in ObjectiveClinicInputs
          /\ preferences = {}
          /\ affinities \in SoftAffinityInputs
          /\ previous_earnings = EmptyMap
          /\ date_overrides = EmptyMap
       \/ /\ clinics \in ObjectiveClinicInputs
          /\ preferences = {}
          /\ affinities = {}
          /\ previous_earnings \in PreviousEarningsInputs
          /\ date_overrides \in {EmptyMap} \cup DoubleSlotInputs
    /\ caller = "solve_schedule"
    /\ pc = "slots"
    /\ InitLocals
    /\ solver_calls = 0
    /\ mode_i = 0
    /\ plans = <<>>
    /\ runs = <<>>
    /\ filtered = <<>>
    /\ probs = <<>>
    /\ sheets = <<>>

SpecObjective == InitObjective /\ [][Next]_vars

(* ---- solve_schedule called twice, on records as stored and as edited ---- *)

(* weights that are none of the three canonical values; seed_data.py
   stores round(random.uniform(1.0, 5.0), 1) *)
OtherWeights == {3, 5}

(* weekly locations with fee 1000 *)
RecordClinicInputs ==
    {[c \in 1..m |-> [frequency |-> "weekly", fee |-> 1000,
                       preferred_doctors |-> {}]] : m \in 0..MaxClinics}

(* one affinity record of a weight that is not canonical *)
OtherWeightInputs ==
    {{[doctor_id |-> d, clinic_id |-> c, weight |-> w]} :
        d \in DoctorIds, c \in ClinicIds, w \in OtherWeights}

(* one affinity record of a canonical weight *)
CanonicalAffinityInputs ==
    {{[doctor_id |-> d, clinic_id |-> c, weight |-> w]} :
        d \in DoctorIds, c \in ClinicIds,
        w \in {PRIORITY_NEVER, PRIORITY_POSSIBLE, PRIORITY_MUST}}

(* one preference record with an NG date, a soft-avoid date and a preferred
   location *)
FullPreferenceInputs ==
    {{[doctor_id |-> d, ng_dates |-> {ds}, avoid_dates |-> {ds},
       preferred_clinics |-> {c}]} :
        d \in DoctorIds, ds \in Dates, c \in ClinicIds}

(* the locations cl with worker d nominated by location c *)
Nominating(cl, c, d) == [cl EXCEPT ![c].preferred_doctors = {d}]

(* the records that name only workers and locations of the lists; get_doctors
   and get_clinics return the active rows while get_affinities, the
   preference sheet and the override sheet return every row *)
LiveAffinities ==
    {r \in affinities : r.doctor_id \in doctors /\ r.clinic_id \in DOMAIN clinics}

LivePreferences ==
    {[p EXCEPT !.preferred_clinics = @ \cap DOMAIN clinics] :
        p \in {q \in preferences : q.doctor_id \in doctors}}

LiveClinics ==
    [c \in DOMAIN clinics |->
        [clinics[c] EXCEPT !.preferred_doctors = @ \cap doctors]]

LiveOverrides ==
    [k \in {j \in DOMAIN date_overrides : j[1] \in DOMAIN clinics} |->
        date_overrides[k]]

(* the affinity records with every weight that is neither MUST nor NEVER
   replaced by POSSIBLE *)
PossibleAffinities ==
    {[r EXCEPT !.weight = IF @ \in {PRIORITY_MUST, PRIORITY_NEVER}
                          THEN @ ELSE PRIORITY_POSSIBLE] : r \in affinities}

(* a direct call of solve_schedule with one record that has an odd weight or
   names a worker or a location that is not on the lists *)
InitRecords ==
    /\ doctors \in DoctorInputs
    /\ saturdays \in SaturdayInputs
    /\ mode \in ModeNames
    /\ previous_earnings = EmptyMap
    /\ \/ /\ clinics \in RecordClinicInputs
          /\ affinities \in OtherWeightInputs
          /\ preferences = {}
          /\ date_overrides = EmptyMap
       \/ /\ clinics \in RecordClinicInputs
          /\ affinities \in CanonicalAffinityInputs
          /\ affinities # LiveAffinities
          /\ preferences = {}
          /\ date_overrides = EmptyMap
       \/ /\ clinics \in RecordClinicInputs
          /\ affinities = {}
          /\ preferences \in FullPreferenceInputs
          /\ preferences # LivePreferences
          /\ date_overrides = EmptyMap
       \/ /\ \E cl \in RecordClinicInputs : \E c \in DOMAIN cl :
                \E d \in DoctorIds \ doctors : clinics = Nominating(cl, c, d)
          /\ affinities = {}
          /\ preferences = {}
          /\ date_overrides = EmptyMap
       \/ /\ clinics \in RecordClinicInputs
          /\ affinities = {}
          /\ preferences = {}
          /\ date_overrides \in OverrideInputs
          /\ date_overrides # LiveOverrides
    /\ caller = "solve_schedule"
    /\ pc = "slots"
    /\ InitLocals
    /\ solver_calls = 0
    /\ mode_i = 0
    /\ plans = <<>>
    /\ runs = <<>>
    /\ filtered = <<>>
    /\ probs = <<>>
    /\ sheets = <<>>

(* the kind of the call in progress: the first one, or the repeated one *)
CallKind ==
    IF probs = <<>> THEN "as_stored" ELSE probs[Len(probs)].next_call

(* history: the model the call has built (slots, required counts, the
   assignments meeting the hard constraints and the objective value of each
   one), or the way the call ended before it built one *)
ObserveModel ==
    /\ pc \in {"solve", "returned", "raised"}
    /\ Len(probs) < 2
    /\ probs' = Append(probs,
          [call |-> CallKind,
           next_call |-> "none",
           outcome |-> pc,
           slots |-> slots,
           slot_required |-> slot_required,
           feasible |-> IF pc = "solve" THEN Feasible ELSE {},
           objective |-> IF pc = "solve"
                         THEN [xs \in Feasible |-> ObjectiveN(xs, mode)]
                         ELSE EmptyMap])
    /\ pc' = "observed"
    /\ UNCHANGED <<inputs, runs, filtered, sheets, mode, caller, locals,
                   solver_calls, mode_i, plans>>

(* the caller calls solve_schedule again, with the records that name a
   worker or a location off the lists left out *)
CallAgainWithoutStaleRecords ==
    /\ pc = "observed"
    /\ Len(probs) = 1
    /\ <<clinics, preferences, affinities, date_overrides>>
          # <<LiveClinics, LivePreferences, LiveAffinities, LiveOverrides>>
    /\ clinics' = LiveClinics
    /\ preferences' = LivePreferences
    /\ affinities' = LiveAffinities
    /\ date_overrides' = LiveOverrides
    /\ probs' = [probs EXCEPT ![1].next_call = "without_stale"]
    /\ pc' = "slots"
    /\ slots' = {}
    /\ slot_required' = EmptyMap
    /\ built' = FALSE
    /\ status' = Unset
    /\ sol_status' = Unset
    /\ x' = {}
    /\ result' = NoResult
    /\ UNCHANGED <<doctors, saturdays, previous_earnings, runs, filtered, sheets,
                   mode, caller, solver_calls, mode_i, plans>>

(* the caller calls solve_schedule again, after set_affinity has stored the
   weight 1.0 for the records of a non-canonical weight *)
CallAgainWithWeightPossible ==
    /\ pc = "observed"
    /\ Len(probs) = 1
    /\ affinities # PossibleAffinities
    /\ affinities' = PossibleAffinities
    /\ probs' = [probs EXCEPT ![1].next_call = "weight_possible"]
    /\ pc' = "slots"
    /\ slots' = {}
    /\ slot_required' = EmptyMap
    /\ built' = FALSE
    /\ status' = Unset
    /\ sol_status' = Unset
    /\ x' = {}
    /\ result' = NoResult
    /\ UNCHANGED <<doctors, clinics, saturdays, preferences, previous_earnings,
                   date_overrides, runs, filtered, sheets, mode, caller,
                   solver_calls, mode_i, plans>>

NextRecords ==
    \/ BuildSlots
    \/ BuildModel
    \/ ObserveModel
    \/ CallAgainWithoutStaleRecords
    \/ CallAgainWithWeightPossible

SpecRecords == InitRecords /\ [][NextRecords]_vars

(* ---- the schedule sheets of src/database.py ---- *)

(* A sheet is [ym, rows]; a row is [id, plan_name, assignments,
   is_confirmed]. The columns total_variance, satisfaction_score and
   created_at are left out: no function reads them to decide anything. The
   cell of the assignments holds their JSON text, which stands here for the
   list it was made from. *)

Months == 1..MaxMonths

(* the labels of the three plans, which admin_generate.py saves by name *)
PlanNames == {Modes[i][2] : i \in DOMAIN Modes}

(* two assignment lists that differ *)
AssignmentInputs ==
    {{}, {[date |-> 1, clinic_id |-> 1, doctor_id |-> 1]}}

(* s without its i-th element: ws.delete_rows *)
RemoveAt(s, i) == SubSeq(s, 1, i - 1) \o SubSeq(s, i + 1, Len(s))

(* _next_id: 1 for a sheet without rows, else the largest id plus 1 *)
next_id(rows) ==
    IF Len(rows) = 0 THEN 1
    ELSE (CHOOSE m \in {rows[i].id : i \in DOMAIN rows} :
             \A i \in DOMAIN rows : rows[i].id <= m) + 1

(* the position of the sheet of month ym among the worksheets, 0 if none *)
SheetOf(sh, ym) ==
    IF \E k \in DOMAIN sh : sh[k].ym = ym
    THEN CHOOSE k \in DOMAIN sh : sh[k].ym = ym
    ELSE 0

(* _init_monthly_sheet: the worksheets with a sheet for month ym, added at
   the end when there is none *)
WithSheet(ym) ==
    IF SheetOf(sheets, ym) # 0 THEN sheets
    ELSE Append(sheets, [ym |-> ym, rows |-> <<>>])

(* the first row of rows with the id, 0 if none *)
RowOf(rows, id) ==
    IF \E i \in DOMAIN rows : rows[i].id = id
    THEN CHOOSE i \in DOMAIN rows :
             rows[i].id = id /\ \A j \in 1..(i - 1) : rows[j].id # id
    ELSE 0

(* for ws in sh.worksheets(): the first schedule sheet, in worksheet order,
   with a row of that id; 0 if none *)
FindSheet(id) ==
    IF \E k \in DOMAIN sheets : RowOf(sheets[k].rows, id) # 0
    THEN CHOOSE k \in DOMAIN sheets :
             /\ RowOf(sheets[k].rows, id) # 0
             /\ \A j \in 1..(k - 1) : RowOf(sheets[j].rows, id) = 0
    ELSE 0

(* get_schedules(target_month) of the admin page: the ids of the plans shown
   for month ym *)
ShownIds(ym) ==
    IF SheetOf(sheets, ym) = 0 THEN {}
    ELSE {sheets[SheetOf(sheets, ym)].rows[i].id :
             i \in DOMAIN sheets[SheetOf(sheets, ym)].rows}

InitSheets ==
    /\ doctors = {}
    /\ clinics = <<>>
    /\ saturdays = <<>>
    /\ preferences = {}
    /\ affinities = {}
    /\ previous_earnings = EmptyMap
    /\ date_overrides = EmptyMap
    /\ mode = Unset
    /\ caller = "admin_generate"
    /\ pc = "page"
    /\ InitLocals
    /\ solver_calls = 0
    /\ mode_i = 0
    /\ plans = <<>>
    /\ runs = <<>>
    /\ filtered = <<>>
    /\ probs = <<>>
    /\ sheets = <<>>

SheetFrame ==
    /\ pc = "page"
    /\ UNCHANGED <<inputs, runs, filtered, probs, mode, caller, pc, locals,
                   solver_calls, mode_i, plans>>

(* save_schedule(year_month, plan_name, assignments): the row of that plan
   name is overwritten with is_confirmed 0 and keeps its id; without such a
   row a new one is appended with the next id *)
save_schedule(ym, name, asg) ==
    LET sh == WithSheet(ym)
        k == SheetOf(sh, ym)
        rows == sh[k].rows
        same == {i \in DOMAIN rows : rows[i].plan_name = name}
    IN /\ SheetFrame
       /\ IF same # {}
          THEN LET i == CHOOSE i \in same : \A j \in same : i <= j IN
               sheets' = [sh EXCEPT ![k].rows[i] =
                             [id |-> rows[i].id, plan_name |-> name,
                              assignments |-> asg, is_confirmed |-> 0]]
          ELSE /\ next_id(rows) <= MaxId
               /\ sheets' = [sh EXCEPT ![k].rows =
                                Append(rows,
                                    [id |-> next_id(rows), plan_name |-> name,
                                     assignments |-> asg, is_confirmed |-> 0])]

(* variant: the other plans of the sheet keep their flag *)
confirm_schedule_no_reset(schedule_id) ==
    LET k == FindSheet(schedule_id)
        i == RowOf(sheets[k].rows, schedule_id)
    IN /\ SheetFrame
       /\ k # 0
       /\ sheets' = [sheets EXCEPT ![k].rows[i].is_confirmed = 1]

(* confirm_schedule(schedule_id): in the first sheet with a row of that id
   every flag is reset and the flag of that row is set; without such a
   sheet nothing is written *)
confirm_schedule(schedule_id) ==
    LET k == FindSheet(schedule_id)
        i == RowOf(sheets[k].rows, schedule_id)
    IN /\ SheetFrame
       /\ k # 0
       /\ sheets' = [sheets EXCEPT ![k].rows =
                        [j \in DOMAIN @ |->
                            [@[j] EXCEPT !.is_confirmed =
                                IF j = i THEN 1 ELSE 0]]]

(* delete_schedule(schedule_id): the row is deleted from the first sheet
   with a row of that id *)
delete_schedule(schedule_id) ==
    LET k == FindSheet(schedule_id)
        i == RowOf(sheets[k].rows, schedule_id)
    IN /\ SheetFrame
       /\ k # 0
       /\ sheets' = [sheets EXCEPT ![k].rows = RemoveAt(@, i)]

(* update_schedule_assignments(schedule_id, assignments): the assignments
   cell of the row is rewritten in the first sheet with a row of that id *)
update_schedule_assignments(schedule_id, asg) ==
    LET k == FindSheet(schedule_id)
        i == RowOf(sheets[k].rows, schedule_id)
    IN /\ SheetFrame
       /\ k # 0
       /\ sheets' = [sheets EXCEPT ![k].rows[i].assignments = asg]

(* the admin page of a month: it saves plans under their names, and it
   confirms, deletes and edits the plans get_schedules shows for its month.
   The page offers the confirm and the delete button for an unconfirmed
   plan; the functions take any id, so every shown id is tried. *)
SavePlan ==
    \E ym \in Months, name \in PlanNames, asg \in AssignmentInputs :
        save_schedule(ym, name, asg)

ConfirmPlan ==
    \E ym \in Months : \E id \in ShownIds(ym) : confirm_schedule(id)

DeletePlan ==
    \E ym \in Months : \E id \in ShownIds(ym) : delete_schedule(id)

EditPlan ==
    \E ym \in Months : \E id \in ShownIds(ym) :
        \E asg \in AssignmentInputs : update_schedule_assignments(id, asg)

NextSheets ==
    \/ SavePlan
    \/ ConfirmPlan
    \/ DeletePlan
    \/ EditPlan

SpecSheets == InitSheets /\ [][NextSheets]_vars

(* ======================== properties ======================== *)

(* solve_schedule has returned a result record *)
HasResult == pc = "returned" /\ result # None

(* the workers the result assigns to slot <<c, ds>> *)
AssignedTo(c, ds) ==
    {a.doctor_id : a \in {b \in result.assignments :
                            b.clinic_id = c /\ b.date = ds}}

(* C1: in every returned result, each generated slot has exactly its
   required number of distinct workers (the override, or 1 without one). *)
C1_ExactCoverage ==
    HasResult =>
        \A s \in slots : Cardinality(AssignedTo(s[1], s[2])) = OverrideGet(s[1], s[2])

(* a result with a one-worker slot and a two-worker slot *)
C1_Witness ==
    /\ HasResult
    /\ \E s \in slots : OverrideGet(s[1], s[2]) = 2
    /\ \E s \in slots : OverrideGet(s[1], s[2]) = 1

(* C2: in every returned result a worker has at most one assignment on a
   date, over all locations. *)
C2_OneDutyPerDay ==
    HasResult =>
        \A d \in DoctorIds : \A ds \in Dates :
            Cardinality({a \in result.assignments :
                            a.doctor_id = d /\ a.date = ds}) <= 1

(* a result for two locations that both have a slot on one date *)
C2_Witness ==
    /\ HasResult
    /\ \E s, t \in slots : s[1] # t[1] /\ s[2] = t[2]
    /\ Cardinality(doctors) >= 2

(* the NG dates the preference records give a worker *)
NgDatesOf(d) == UNION {p.ng_dates : p \in {q \in preferences : q.doctor_id = d}}

(* C3: no assignment of a returned result is on an NG date of its worker,
   under every profile. *)
C3_NoNgDate ==
    HasResult =>
        \A a \in result.assignments : a.date \notin NgDatesOf(a.doctor_id)

(* a result although a listed worker is NG on a date that has a slot *)
C3_Witness ==
    /\ HasResult
    /\ \E d \in doctors : \E s \in slots : s[2] \in NgDatesOf(d)

(* C4: no assignment of a returned result puts a worker at a location for
   which a record of weight NEVER exists for the pair. *)
C4_NoNeverLocation ==
    HasResult =>
        \A a \in result.assignments :
            ~ \E r \in affinities :
                /\ r.doctor_id = a.doctor_id
                /\ r.clinic_id = a.clinic_id
                /\ r.weight = PRIORITY_NEVER

(* a result although a listed worker is NEVER at a location that has a slot *)
C4_Witness ==
    /\ HasResult
    /\ \E r \in affinities :
        /\ r.weight = PRIORITY_NEVER
        /\ r.doctor_id \in doctors
        /\ \E s \in slots : s[1] = r.clinic_id

(* C5: for every MUST pair of a listed worker whose location has a slot, a
   returned result holds an assignment of that worker at that location. *)
C5_MustAssigned ==
    HasResult =>
        \A r \in affinities :
            (/\ r.weight = PRIORITY_MUST
             /\ r.doctor_id \in doctors
             /\ \E s \in slots : s[1] = r.clinic_id)
            => \E a \in result.assignments :
                a.doctor_id = r.doctor_id /\ a.clinic_id = r.clinic_id

(* a result for a MUST pair whose location has a slot, with a second worker *)
C5_Witness ==
    /\ HasResult
    /\ Cardinality(doctors) >= 2
    /\ \E r \in affinities :
        /\ r.weight = PRIORITY_MUST
        /\ r.doctor_id \in doctors
        /\ \E s \in slots : s[1] = r.clinic_id

(* ---- satisfiability of the hard constraints, stated on the inputs ---- *)

NeverRecord(d, c) ==
    \E r \in affinities :
        r.doctor_id = d /\ r.clinic_id = c /\ r.weight = PRIORITY_NEVER

(* the listed workers a slot may take: not NG that day, not NEVER there *)
EligibleFor(s) ==
    {d \in doctors : s[2] \notin NgDatesOf(d) /\ ~NeverRecord(d, s[1])}

(* the schedules (slot -> set of workers) that staff every slot of S with
   exactly its required number of eligible workers *)
RECURSIVE Staffings(_)
Staffings(S) ==
    IF S = {} THEN {EmptyMap}
    ELSE LET s == CHOOSE s \in S : TRUE
             teams == {D \in SUBSET EligibleFor(s) :
                          Cardinality(D) = OverrideGet(s[1], s[2])}
         IN {[t \in {s} |-> D] @@ rest : D \in teams, rest \in Staffings(S \ {s})}

(* no worker twice on a date *)
NoDoubleDuty(f) ==
    \A s, t \in DOMAIN f : (s # t /\ s[2] = t[2]) => f[s] \cap f[t] = {}

(* each MUST pair of a listed worker whose location has a slot is served *)
MustServed(f) ==
    \A r \in affinities :
        (/\ r.weight = PRIORITY_MUST
         /\ r.doctor_id \in doctors
         /\ \E s \in DOMAIN f : s[1] = r.clinic_id)
        => \E s \in DOMAIN f : s[1] = r.clinic_id /\ r.doctor_id \in f[s]

(* the schedules of the dates D, each date staffed without double duty *)
RECURSIVE DateStaffings(_)
DateStaffings(D) ==
    IF D = {} THEN {EmptyMap}
    ELSE LET ds == CHOOSE ds \in D : TRUE
             day == {f \in Staffings({s \in slots : s[2] = ds}) : NoDoubleDuty(f)}
         IN {f @@ rest : f \in day, rest \in DateStaffings(D \ {ds})}

(* some schedule meets all hard constraints *)
SomeSchedule == \E f \in DateStaffings({s[2] : s \in slots}) : MustServed(f)

(* a MUST pair of a listed worker whose location has no slot *)
SlotlessMust ==
    \E r \in affinities :
        /\ r.weight = PRIORITY_MUST
        /\ r.doctor_id \in doctors
        /\ ~ \E s \in slots : s[1] = r.clinic_id

(* C6 as stated: with a MUST pair whose location has no slot, while other
   locations have slots, solve_schedule returns no solution. *)
C6_Original ==
    (pc = "returned" /\ slots # {} /\ SlotlessMust) => result = None

(* C6 amended: no MUST row is added for a pair whose location has no slot;
   the solver reports infeasibility only when the remaining hard
   constraints cannot be met, and a solution it ends with is returned. *)
C6_SlotlessMustIgnored ==
    (pc = "returned" /\ slots # {} /\ SlotlessMust) =>
        /\ sol_status = "No Solution Exists" => ~SomeSchedule
        /\ sol_status \in {"Optimal Solution Found", "Solution Found"}
              => result # None

(* a result is returned although a MUST pair has no slot at its location *)
C6_Witness ==
    /\ HasResult
    /\ slots # {}
    /\ SlotlessMust

(* C7 as stated: with a non-empty slot set solve_schedule raises no error
   and returns a result exactly when some schedule meets all hard
   constraints. *)
C7_ResultIffSatisfiable ==
    (pc \in {"returned", "raised"} /\ slots # {}) =>
        /\ pc = "returned"
        /\ result # None <=> SomeSchedule

(* C8: a solve ended by the time limit with an incumbent is accepted, and
   the result is extracted from the incumbent as from an optimum. *)
C8_IncumbentAccepted ==
    (pc = "returned" /\ sol_status = "Solution Found") =>
        /\ result # None
        /\ result.status = "Optimal"
        /\ result.assignments =
            {[date |-> t[3], clinic_id |-> t[2], doctor_id |-> t[1]] : t \in x}
        /\ \A s \in slots : Cardinality(AssignedTo(s[1], s[2])) = slot_required[s]

(* the returned result comes from an incumbent that is not an optimum *)
C8_Witness ==
    /\ HasResult
    /\ sol_status = "Solution Found"
    /\ x \notin Optimal(Feasible, mode)

(* no location has an open eligible date *)
NoSlotRemains ==
    \A c \in DOMAIN clinics :
        \A ds \in Range(get_clinic_dates(clinics[c], saturdays)) :
            OverrideGet(c, ds) = 0

(* C9: when no slot remains, solve_schedule returns None before building
   a variable and without a solve, and generate_multiple_plans returns an
   empty list. *)
C9_EmptySlotSet ==
    NoSlotRemains =>
        /\ ~built
        /\ solver_calls = 0
        /\ pc \notin {"build", "solve", "extract", "raised"}
        /\ pc = "returned" => result = None
        /\ plans = <<>>

(* the batch has returned for an input in which a location has two eligible
   dates and overrides close every eligible date *)
C9_Witness ==
    /\ pc = "plans_returned"
    /\ NoSlotRemains
    /\ doctors # {}
    /\ \E c \in DOMAIN clinics :
           Len(get_clinic_dates(clinics[c], saturdays)) >= 2

(* C10: a (location, date) whose override is 0 is never a slot and never
   appears in an assignment of a returned result. *)
C10_ClosedDate ==
    \A k \in DOMAIN date_overrides :
        date_overrides[k] = 0 =>
            /\ k \notin slots
            /\ HasResult =>
                ~ \E a \in result.assignments :
                    a.clinic_id = k[1] /\ a.date = k[2]

(* a result for an input in which an override closes a date the location's
   recurrence selects *)
C10_Witness ==
    /\ HasResult
    /\ \E k \in DOMAIN date_overrides :
        /\ date_overrides[k] = 0
        /\ k[1] \in DOMAIN clinics
        /\ k[2] \in Range(get_clinic_dates(clinics[k[1]], saturdays))

(* ---- scenarios of solve_schedule ---- *)

(* one weekly location of fee 1000, two dates, two workers, no record, the
   balanced profile *)
C13_Scenario ==
    /\ caller = "solve_schedule"
    /\ doctors = {1, 2}
    /\ DOMAIN clinics = {1}
    /\ clinics[1] = [frequency |-> "weekly", fee |-> 1000, preferred_doctors |-> {}]
    /\ saturdays = <<1, 2>>
    /\ preferences = {}
    /\ affinities = {}
    /\ previous_earnings = EmptyMap
    /\ date_overrides = EmptyMap
    /\ mode = "balanced"

(* C13: in that scenario solve_schedule returns exactly two assignments, one
   worker per date, and the optimum CBC proves gives the two workers
   earnings that differ by at most 1000. *)
C13_BalancedPair ==
    (C13_Scenario /\ pc = "returned") =>
        /\ sol_status # "No Solution Exists"
        /\ sol_status = "Optimal Solution Found" => result # None
        /\ result # None =>
            /\ Cardinality(result.assignments) = 2
            /\ \A ds \in {1, 2} :
                  Cardinality({a \in result.assignments : a.date = ds}) = 1
            /\ sol_status = "Optimal Solution Found" =>
                  Abs(result.doctor_earnings[1] - result.doctor_earnings[2]) <= 1000

(* the scenario solved to a proven optimum *)
C13_Witness ==
    /\ C13_Scenario
    /\ HasResult
    /\ sol_status = "Optimal Solution Found"

(* some slot has fewer eligible workers than it requires *)
ShortSlot ==
    \E s \in slots : Cardinality(EligibleFor(s)) < OverrideGet(s[1], s[2])

(* C14 as stated: when a slot has fewer workers that are neither NG on its
   date nor NEVER at its location than it requires, solve_schedule returns
   no solution, under every profile. *)
C14_ShortSlotNoSolution ==
    (pc \in {"returned", "raised"} /\ ShortSlot) =>
        (pc = "returned" /\ result = None)

(* the same with at least one worker in the list *)
C14_ShortSlotWithWorkers ==
    (pc \in {"returned", "raised"} /\ ShortSlot /\ doctors # {}) =>
        (pc = "returned" /\ result = None)

(* C15: a slot whose override asks for as many workers as the list holds,
   none of them NG that day or NEVER there, has all of them assigned in
   every returned result. *)
C15_AllWorkersAssigned ==
    HasResult =>
        \A s \in slots :
            (/\ s \in DOMAIN date_overrides
             /\ date_overrides[s] = Cardinality(doctors)
             /\ EligibleFor(s) = doctors)
            => AssignedTo(s[1], s[2]) = doctors

(* a result for two workers and a slot whose override asks for two *)
C15_Witness ==
    /\ HasResult
    /\ doctors = {1, 2}
    /\ \E s \in slots :
          s \in DOMAIN date_overrides /\ date_overrides[s] = 2

(* C17 as stated: with at least one slot the model is built without an
   error, whatever the worker list, and the call reaches the solver. *)
C17_BuildNeverFails ==
    slots # {} =>
        /\ pc # "raised"
        /\ pc = "returned" => solver_calls >= 1

(* ---- generate_multiple_plans ---- *)

(* the result of the i-th run with the tags of the i-th profile *)
TaggedRun(i) ==
    runs[i].result @@ [plan_name |-> Modes[i][2], mode |-> Modes[i][1]]

(* the tagged results of the first n runs that produced one, in run order *)
RECURSIVE ProducedPlans(_)
ProducedPlans(n) ==
    IF n = 0 THEN <<>>
    ELSE ProducedPlans(n - 1)
         \o (IF runs[n].result # None THEN <<TaggedRun(n)>> ELSE <<>>)

(* C12: generate_multiple_plans calls solve_schedule once per profile, in
   the order balanced, preference, affinity, with no second attempt, and
   its list holds exactly the runs that produced a result, in run order,
   each tagged with its profile and label; it is empty when none did. *)
C12_PlansInRunOrder ==
    caller = "generate_multiple_plans" =>
        /\ Len(runs) <= Len(Modes)
        /\ \A i \in DOMAIN runs : runs[i].mode = Modes[i][1]
        /\ solver_calls <= Len(Modes)
        /\ plans = ProducedPlans(Len(runs))
        /\ pc = "plans_returned" =>
              /\ Len(runs) = Len(Modes)
              /\ (\A i \in DOMAIN runs : runs[i].result = None) => plans = <<>>

(* the batch returned two plans: the second run gave no solution *)
C12_Witness ==
    /\ pc = "plans_returned"
    /\ Len(runs) = 3
    /\ runs[1].result # None
    /\ runs[2].result = None
    /\ runs[3].result # None
    /\ Len(plans) = 2
    /\ plans[1].mode = "balanced"
    /\ plans[2].mode = "affinity"

(* the solve of a run ended before the time limit, or the run had no solve *)
FinishedInTime(r) == r.sol_status \notin {"Solution Found", "No Solution Found"}

(* C20: the hard constraints do not depend on the profile: the runs of one
   batch that finish within the time limit all produce a result or all
   produce none, and a batch whose runs all finish in time returns 0 or 3
   plans. *)
C20_AllOrNone ==
    caller = "generate_multiple_plans" =>
        /\ \A i, j \in DOMAIN runs :
              (FinishedInTime(runs[i]) /\ FinishedInTime(runs[j])) =>
                  (runs[i].result = None <=> runs[j].result = None)
        /\ (pc = "plans_returned" /\ \A i \in DOMAIN runs : FinishedInTime(runs[i]))
              => Len(plans) \in {0, 3}

(* three proven infeasibilities for an input with a NEVER record: no plan *)
C20_Witness ==
    /\ pc = "plans_returned"
    /\ Len(runs) = 3
    /\ \A i \in DOMAIN runs : runs[i].sol_status = "No Solution Exists"
    /\ \E r \in affinities : r.weight = PRIORITY_NEVER
    /\ plans = <<>>

(* ---- get_clinic_dates ---- *)

(* the pattern of the location of a direct call *)
FrequencyOfCall ==
    IF "frequency" \in DOMAIN clinics[1] THEN clinics[1].frequency ELSE "weekly"

(* t keeps the relative order of s: t is s restricted to some positions *)
IsSubsequence(t, s) ==
    \E I \in SUBSET (1..Len(s)) :
        /\ Cardinality(I) = Len(t)
        /\ \A j \in 1..Len(t) :
            \E i \in I : Cardinality({k \in I : k <= i}) = j /\ t[j] = s[i]

(* C11 as stated: for every pattern the output of get_clinic_dates is a
   fixed point of get_clinic_dates and keeps the relative order of S. *)
C11_Original ==
    (caller = "get_clinic_dates" /\ Len(filtered) = 2) =>
        /\ filtered[2] = filtered[1]
        /\ IsSubsequence(filtered[1], saturdays)

(* C11 amended: the output keeps the relative order of S for every pattern;
   it is a fixed point for weekly, first_only, last_only and an unknown
   pattern, while a biweekly pattern applied to its own output selects
   again by position, so the output is unchanged only when it has at most
   one element (biweekly_odd) or none (biweekly_even). *)
C11_IdempotentExceptBiweekly ==
    (caller = "get_clinic_dates" /\ Len(filtered) = 2) =>
        /\ IsSubsequence(filtered[1], saturdays)
        /\ IsSubsequence(filtered[2], filtered[1])
        /\ filtered[2] = filtered[1] <=>
              \/ FrequencyOfCall \notin {"biweekly_odd", "biweekly_even"}
              \/ FrequencyOfCall = "biweekly_odd" /\ Len(filtered[1]) <= 1
              \/ FrequencyOfCall = "biweekly_even" /\ Len(filtered[1]) = 0

(* first_only was applied twice to a sequence of at least three dates *)
C11_Witness ==
    /\ caller = "get_clinic_dates"
    /\ Len(filtered) = 2
    /\ FrequencyOfCall = "first_only"
    /\ Len(saturdays) >= 3
    /\ filtered[2] = filtered[1]

(* the claimed output: positions are 1-based here, so the 0-based even
   indexes are the positions 1, 3, 5 and the odd ones 2, 4 *)
ExpectedDates(freq, S) ==
    IF S = <<>> THEN <<>>
    ELSE IF freq = "weekly" THEN S
    ELSE IF freq = "biweekly_odd" THEN
        [j \in 1..((Len(S) + 1) \div 2) |-> S[2 * j - 1]]
    ELSE IF freq = "biweekly_even" THEN
        [j \in 1..(Len(S) \div 2) |-> S[2 * j]]
    ELSE IF freq = "first_only" THEN <<S[1]>>
    ELSE <<S[Len(S)]>>

(* C18: get_clinic_dates returns S for weekly, the dates at the 0-based
   even (biweekly_odd) or odd (biweekly_even) positions of S, the first or
   the last date alone, and the empty sequence when S is empty; positions
   count the dates left after the holidays were removed. *)
C18_PatternOutput ==
    (caller = "get_clinic_dates" /\ Len(filtered) >= 1
        /\ FrequencyOfCall \in KnownFrequencies) =>
        filtered[1] = ExpectedDates(FrequencyOfCall, saturdays)

(* biweekly_odd on a month whose first Saturday is a holiday: the dates
   kept are the second and the fourth Saturday of the calendar *)
C18_Witness ==
    /\ caller = "get_clinic_dates"
    /\ FrequencyOfCall = "biweekly_odd"
    /\ saturdays = <<2, 3, 4, 5>>
    /\ Len(filtered) >= 1
    /\ filtered[1] = <<2, 4>>

(* a location whose pattern is none of the five, or that has none *)
UnknownPattern(clinic) ==
    \/ "frequency" \notin DOMAIN clinic
    \/ clinic.frequency \notin KnownFrequencies

(* C16: for a location whose pattern is unknown or missing,
   get_clinic_dates returns the whole eligible-date sequence, and
   solve_schedule gives the location a slot on every date, as for a weekly
   one, and raises nothing on account of the pattern. *)
C16_UnknownPatternIsWeekly ==
    /\ (caller = "get_clinic_dates" /\ Len(filtered) >= 1
            /\ UnknownPattern(clinics[1]))
          => filtered[1] = saturdays
    /\ (caller = "solve_schedule" /\ pc # "slots") =>
          /\ \A c \in DOMAIN clinics :
                UnknownPattern(clinics[c]) =>
                    {s \in slots : s[1] = c} = {c} \X Range(saturdays)
          /\ pc = "raised" => doctors = {}

(* a result for a location of an unknown pattern and one of no pattern *)
C16_Witness ==
    /\ HasResult
    /\ Len(saturdays) >= 2
    /\ \E c \in DOMAIN clinics : "frequency" \notin DOMAIN clinics[c]
    /\ \E c \in DOMAIN clinics :
          "frequency" \in DOMAIN clinics[c] /\ clinics[c].frequency = "monthly"

(* ---- objective ---- *)

(* the L1 deviation of v from its mean over the workers, times their number *)
ClaimL1N(v) ==
    CHOOSE dev \in
        {SumOver(doctors, [d \in doctors |-> Abs(n * v[d] - total)]) :
            n \in {Cardinality(doctors)}, total \in {SumOver(doctors, v)}} : TRUE

(* the weighted sum of the six terms for an assignment list with the given
   earnings and counts per worker, times the number of workers; the pay
   coefficient is dropped when every fee is 0 *)
ClaimObjectiveN(as, earned, counts, m) ==
    LET w == ModeWeights(m)
        pay == [d \in doctors |->
                   earned[d] + (IF d \in DOMAIN previous_earnings
                                THEN previous_earnings[d] ELSE 0)]
        preferred == {a \in as : \E p \in preferences :
                         p.doctor_id = a.doctor_id
                         /\ a.clinic_id \in p.preferred_clinics}
        nominated == {a \in as : a.doctor_id \in clinics[a.clinic_id].preferred_doctors}
        weighted == {a \in as : \E r \in affinities :
                        r.doctor_id = a.doctor_id /\ r.clinic_id = a.clinic_id}
        avoided == {a \in as : \E p \in preferences :
                       p.doctor_id = a.doctor_id /\ a.date \in p.avoid_dates}
    IN (IF \A c \in DOMAIN clinics : clinics[c].fee = 0 THEN 0 ELSE w.w_var)
           * ClaimL1N(pay)
       + Cardinality(doctors)
           * (w.w_pref * Cardinality(preferred)
              + w.w_nom * Cardinality(nominated)
              + w.w_pri * SumOver(weighted, [a \in weighted |->
                    (CHOOSE r \in affinities :
                        r.doctor_id = a.doctor_id
                        /\ r.clinic_id = a.clinic_id).weight])
              + w.w_avoid * Cardinality(avoided))
       + w.w_cnt * ClaimL1N(counts)

(* the same for the assignment list of the values xs of the variables *)
ClaimObjectiveOf(xs, m) ==
    ClaimObjectiveN(Assignments(xs),
        [d \in doctors |->
            SumOver({t \in xs : t[1] = d},
                    [t \in {u \in xs : u[1] = d} |-> clinics[t[2]].fee])],
        [d \in doctors |-> Cardinality({t \in xs : t[1] = d})], m)

(* the objective of the returned result is least among the assignments
   that meet the hard constraints *)
ResultIsMinimal ==
    \A v \in {ClaimObjectiveN(result.assignments, result.doctor_earnings,
                               result.doctor_counts, mode)} :
        \A ys \in Feasible : v <= ClaimObjectiveOf(ys, mode)

(* C19 as stated: every returned schedule attains the minimum of its
   profile's weighted sum over the assignments meeting the hard
   constraints. *)
C19_Original == HasResult => ResultIsMinimal

(* C19 amended: the returned schedule attains the minimum when CBC proved
   the optimum within the time limit; a result taken from the incumbent of
   a solve the time limit ended meets the hard constraints only. *)
C19_MinimalWhenProven ==
    HasResult =>
        /\ \A s \in slots : Cardinality(AssignedTo(s[1], s[2])) = slot_required[s]
        /\ OnePerDay(x) /\ NgOk(x) /\ NeverOk(x) /\ MustOk(x)
        /\ sol_status = "Optimal Solution Found" => ResultIsMinimal

(* a proven optimum chosen among assignments of different objective value,
   for an input with soft data *)
C19_Witness ==
    /\ HasResult
    /\ sol_status = "Optimal Solution Found"
    /\ \/ preferences # {}
       \/ affinities # {}
       \/ previous_earnings # EmptyMap
       \/ \E c \in DOMAIN clinics : clinics[c].preferred_doctors # {}
    /\ \E ys \in Feasible :
          ClaimObjectiveOf(ys, mode) > ClaimObjectiveOf(x, mode)

(* ---- zero-fee rule ---- *)

(* every location of the input has fee 0 *)
NoPaySignal == \A c \in DOMAIN clinics : clinics[c].fee = 0

(* the five terms other than the pay variance, times the number of workers;
   none of them reads the carried-over earnings *)
ClaimFiveTermsN(xs, m) ==
    LET w == ModeWeights(m) IN
    Cardinality(doctors)
        * (w.w_pref * PreferenceTerm(xs)
           + w.w_nom * NominationTerm(xs)
           + w.w_pri * PriorityTerm(xs)
           + w.w_avoid * AvoidPenalty(xs))
    + w.w_cnt * CountVarianceN(xs)

(* the pay-variance term of xs with the coefficient of profile m *)
ClaimPayTermN(xs, m) ==
    ModeWeights(m).w_var
        * ClaimL1N([d \in doctors |->
              SumOver({t \in xs : t[1] = d},
                      [t \in {u \in xs : u[1] = d} |-> clinics[t[2]].fee])
              + (IF d \in DOMAIN previous_earnings
                 THEN previous_earnings[d] ELSE 0)])

(* the least elements of a set of numbers: one, or none for the empty set *)
LeastOf(V) == {m \in V : \A n \in V : m <= n}

(* the members of F of least value *)
ArgMin(F, value) ==
    UNION {UNION {{xs \in F : v[xs] = m} : m \in LeastOf({v[xs] : xs \in F})} :
              v \in {value}}

(* C21: when every location has fee 0 the pay-variance coefficient is 0
   under every profile, the optimal schedules are the minimisers of the
   other five terms (which do not read the carried-over earnings), and a
   proven optimum is one of them; when a location has a non-zero fee the
   coefficient is the profile's own and the optimal schedules are the
   minimisers of all six terms. *)
C21_ZeroFeeRule ==
    /\ pc = "solve" =>
          IF NoPaySignal
          THEN /\ WVar(mode) = 0
               /\ \A F \in {Feasible} :
                     Optimal(F, mode)
                         = ArgMin(F, [xs \in F |-> ClaimFiveTermsN(xs, mode)])
          ELSE /\ WVar(mode) = ModeWeights(mode).w_var
               /\ \A F \in {Feasible} :
                     Optimal(F, mode)
                         = ArgMin(F, [xs \in F |-> ClaimPayTermN(xs, mode)
                                                   + ClaimFiveTermsN(xs, mode)])
    /\ (HasResult /\ NoPaySignal /\ previous_earnings # EmptyMap
        /\ sol_status = "Optimal Solution Found") =>
          \A F \in {Feasible} :
              x \in ArgMin(F, [xs \in F |-> ClaimFiveTermsN(xs, mode)])

(* a proven optimum for locations without fee and a worker with carried-over
   earnings, chosen among schedules the other five terms tell apart *)
C21_Witness ==
    /\ HasResult
    /\ NoPaySignal
    /\ previous_earnings # EmptyMap
    /\ sol_status = "Optimal Solution Found"
    /\ Cardinality(doctors) >= 2
    /\ \E ys \in Feasible :
          ClaimFiveTermsN(ys, mode) > ClaimFiveTermsN(x, mode)

(* ---- satisfaction score ---- *)

(* what one assignment adds to the score: 1 for a location the worker
   prefers, 1 for a worker the location nominates, and the weight of the
   affinity record of the pair, if there is one *)
ClaimScoreOf(a) ==
    (IF \E p \in preferences :
            p.doctor_id = a.doctor_id /\ a.clinic_id \in p.preferred_clinics
     THEN 1 ELSE 0)
    + (IF a.doctor_id \in clinics[a.clinic_id].preferred_doctors THEN 1 ELSE 0)
    + (IF \E r \in affinities :
             r.doctor_id = a.doctor_id /\ r.clinic_id = a.clinic_id
       THEN (CHOOSE r \in affinities :
                r.doctor_id = a.doctor_id /\ r.clinic_id = a.clinic_id).weight
       ELSE 0)

(* C22: the satisfaction score of a returned result is the sum over its
   assignments of 1 for a preferred location, 1 for a nominated worker and
   the recorded affinity weight of the pair (0 without a record). *)
C22_SatisfactionScore ==
    HasResult =>
        result.satisfaction_score
            = SumOver(result.assignments,
                      [a \in result.assignments |-> ClaimScoreOf(a)])

(* a result with a nominated worker on duty at the nominating location and
   another duty that adds nothing *)
C22_Witness ==
    /\ HasResult
    /\ \E a \in result.assignments :
          a.doctor_id \in clinics[a.clinic_id].preferred_doctors
    /\ \E a \in result.assignments : ClaimScoreOf(a) = 0
    /\ result.satisfaction_score > 0

(* ---- statistics of a result ---- *)

(* the assignments of worker d in the returned result *)
DutiesOf(d) == {a \in result.assignments : a.doctor_id = d}

(* C28: the earnings map and the count map of a returned result have one
   entry per worker of the input; the earnings of a worker are the fees of
   its assignments of this run, without the carried-over earnings; its
   count is the number of its assignments; the counts add up to the sum of
   the required counts of the slots. *)
C28_ResultStatistics ==
    HasResult =>
        /\ DOMAIN result.doctor_earnings = doctors
        /\ DOMAIN result.doctor_counts = doctors
        /\ \A d \in doctors :
              /\ result.doctor_earnings[d]
                    = SumOver(DutiesOf(d),
                              [a \in DutiesOf(d) |-> clinics[a.clinic_id].fee])
              /\ result.doctor_counts[d] = Cardinality(DutiesOf(d))
        /\ SumOver(doctors, result.doctor_counts)
              = SumOver(slots, slot_required)

(* a result with a worker on duty that carries earnings of earlier months
   and a worker without any duty *)
C28_Witness ==
    /\ HasResult
    /\ \E d \in doctors :
          /\ d \in DOMAIN previous_earnings
          /\ previous_earnings[d] > 0
          /\ result.doctor_earnings[d] > 0
    /\ \E d \in doctors :
          result.doctor_counts[d] = 0 /\ result.doctor_earnings[d] = 0

(* ---- overrides and the recurrence pattern ---- *)

(* the pairs (location, date) the recurrence patterns select *)
PatternPairs ==
    {<<c, ds>> \in (DOMAIN clinics) \X Dates :
        ds \in Range(get_clinic_dates(clinics[c], saturdays))}

(* an override for a pair the recurrence patterns do not select *)
StrayOverride(k) == k \in DOMAIN date_overrides /\ k \notin PatternPairs

(* C26: the slot set is a subset of the pairs (location, date) with the
   date among the recurrence-filtered dates of the location, so that an
   override of any count for another date creates no slot. *)
C26_SlotsWithinPattern ==
    pc # "slots" =>
        /\ slots \subseteq PatternPairs
        /\ \A k \in ClinicIds \X Dates : StrayOverride(k) => k \notin slots
        /\ DOMAIN slot_required = slots

(* a result for an input where a location of the list has an override
   asking for two workers on a date its pattern does not select *)
C26_Witness ==
    /\ HasResult
    /\ \E k \in (DOMAIN clinics) \X Dates :
          /\ StrayOverride(k)
          /\ date_overrides[k] = 2
          /\ k \notin slots

(* ---- pairs without affinity record ---- *)

(* no affinity record names the pair *)
NoRecord(d, c) ==
    ~ \E r \in affinities : r.doctor_id = d /\ r.clinic_id = c

(* the values xs of the variables as a schedule: slot -> set of workers *)
StaffingOf(xs) == [s \in slots |-> {d \in doctors : <<d, s[1], s[2]>> \in xs}]

(* C27: a pair of a worker and a location without affinity record has the
   weight 0 of the NEVER constant in the objective and is still not
   excluded: the assignments that meet the hard constraints are exactly the
   schedules that staff every slot with workers who are not NG that day and
   have no explicit record of weight 0.0 for the location, without double
   duty and with the MUST pairs served. *)
C27_NoRecordNotExcluded ==
    pc = "solve" =>
        /\ \A d \in doctors : \A c \in DOMAIN clinics :
              NoRecord(d, c) =>
                  /\ PriorityGet(d, c) = PRIORITY_NEVER
                  /\ c \notin never_pairs(d)
        /\ {StaffingOf(xs) : xs \in Feasible}
              = {f \in DateStaffings({s[2] : s \in slots}) : MustServed(f)}

(* a result that puts a worker at a location the worker has no record for,
   while an explicit record of weight 0.0 bars a listed worker from a
   location with a slot *)
C27_Witness ==
    /\ HasResult
    /\ \E r \in affinities :
          /\ r.weight = PRIORITY_NEVER
          /\ r.doctor_id \in doctors
          /\ \E s \in slots : s[1] = r.clinic_id
    /\ \E a \in result.assignments : NoRecord(a.doctor_id, a.clinic_id)

(* ---- read-only inputs ---- *)

(* what run r of the batch returned is what solve_schedule returns for the
   inputs and the profile of r when called alone: None for an empty slot
   set, the result record of an optimal assignment of the profile when CBC
   proved the optimum, that of a feasible assignment when the time limit
   ended the solve with an incumbent, and None otherwise *)
AsRunAlone(r) ==
    IF BuildSlotSet = {} THEN r.result = None /\ r.sol_status = Unset
    ELSE \A F \in {Feasible} :
            CASE r.sol_status = "Optimal Solution Found" ->
                     \E xs \in Optimal(F, r.mode) :
                         r.result = ResultOf(xs, "Optimal")
              [] r.sol_status = "Solution Found" ->
                     \E xs \in F : r.result = ResultOf(xs, "Optimal")
              [] r.sol_status = "No Solution Exists" ->
                     F = {} /\ r.result = None
              [] OTHER -> r.result = None

(* C24: no step of solve_schedule or generate_multiple_plans changes an
   input (workers, locations with their nominations, eligible dates,
   preferences, affinities, carried-over earnings, overrides), and every
   run of the batch returns what its profile returns for those inputs when
   run alone. *)
C24_InputsReadOnly ==
    /\ [][inputs' = inputs]_vars
    /\ [](pc = "plans_returned" =>
            /\ slots = BuildSlotSet
            /\ slot_required = BuildSlotRequired
            /\ Len(runs) = Len(Modes)
            /\ \A i \in DOMAIN runs :
                  runs[i].mode = Modes[i][1] /\ AsRunAlone(runs[i]))

(* a finished batch of three runs with results, for inputs with an affinity
   record and an override *)
C24_Witness ==
    /\ pc = "plans_returned"
    /\ Len(runs) = Len(Modes)
    /\ \A i \in DOMAIN runs : runs[i].result # None
    /\ affinities # {}
    /\ date_overrides # EmptyMap
    /\ Cardinality(slots) >= 2

(* ---- records of odd weight, records naming identities off the lists ---- *)

(* both calls have built their model or ended *)
BothObserved(kind) ==
    /\ pc = "observed"
    /\ Len(probs) = 2
    /\ probs[2].call = kind

(* C23: an affinity record whose weight is neither 2.0 nor 0.0 adds no hard
   constraint: the call builds the same slots and the same set of
   assignments meeting the hard constraints as the call with the weight of
   the record set to 1.0. *)
C23_OtherWeightNoConstraint ==
    BothObserved("weight_possible") =>
        /\ probs[1].outcome = probs[2].outcome
        /\ probs[1].slots = probs[2].slots
        /\ probs[1].slot_required = probs[2].slot_required
        /\ probs[1].feasible = probs[2].feasible

(* two calls for a record of weight 3 or 5 that names a listed worker and a
   location with slots, with several assignments meeting the constraints,
   one of them without that worker at that location *)
C23_Witness ==
    /\ BothObserved("weight_possible")
    /\ probs[1].outcome = "solve"
    /\ Cardinality(doctors) >= 2
    /\ \E r \in affinities :
          /\ r.doctor_id \in doctors
          /\ \E s \in probs[1].slots : s[1] = r.clinic_id
          /\ \E xs \in probs[1].feasible :
                ~ \E t \in xs : t[1] = r.doctor_id /\ t[2] = r.clinic_id

(* C25: preference, affinity, nomination and override records that name a
   worker absent from the worker list or a location absent from the
   location list do not make the call fail and do not change what it
   builds: it ends the same way, with the same slots, the same set of
   assignments meeting the hard constraints and the same objective value
   for each of them, as the call without those records. *)
C25_StaleRecordsIgnored ==
    BothObserved("without_stale") =>
        /\ probs[1].outcome = probs[2].outcome
        /\ probs[1].slots = probs[2].slots
        /\ probs[1].slot_required = probs[2].slot_required
        /\ probs[1].feasible = probs[2].feasible
        /\ probs[1].objective = probs[2].objective

(* two calls that built a model with several assignments, the first one with
   a record naming an absent worker or location *)
C25_Witness ==
    /\ BothObserved("without_stale")
    /\ probs[1].outcome = "solve"
    /\ Cardinality(probs[1].feasible) >= 2

(* ---- schedule sheets ---- *)

(* the rows of a sheet that are confirmed *)
ConfirmedRows(rows) == {i \in DOMAIN rows : rows[i].is_confirmed = 1}

(* C29: after any sequence of save_schedule, confirm_schedule,
   delete_schedule and update_schedule_assignments every schedule sheet
   holds at most one confirmed plan and at most one row per plan name, and
   a call of confirm_schedule that finds the plan leaves it the only
   confirmed plan of the sheet it was found in. *)
C29_OneConfirmedPlan ==
    /\ [](\A k \in DOMAIN sheets :
            /\ Cardinality(ConfirmedRows(sheets[k].rows)) <= 1
            /\ \A i, j \in DOMAIN sheets[k].rows :
                  sheets[k].rows[i].plan_name = sheets[k].rows[j].plan_name
                      => i = j)
    /\ [][\A id \in 1..MaxId :
             confirm_schedule(id) =>
                 \A k \in {FindSheet(id)} :
                     ConfirmedRows(sheets'[k].rows)
                         = {RowOf(sheets'[k].rows, id)}]_vars

(* two sheets with two plans each, the second plan of each one confirmed *)
C29_Witness ==
    /\ Len(sheets) = 2
    /\ \A k \in DOMAIN sheets :
          /\ Len(sheets[k].rows) = 2
          /\ ConfirmedRows(sheets[k].rows) = {2}

(* C30: confirm_schedule, delete_schedule and update_schedule_assignments,
   called with the id of a plan shown for a month, leave the sheet of every
   other month unchanged, also when another sheet holds a plan of the same
   id. *)
C30_OtherMonthsUnchanged ==
    [][\A ym \in Months : \A id \in ShownIds(ym) :
          (\/ confirm_schedule(id)
           \/ delete_schedule(id)
           \/ \E asg \in AssignmentInputs :
                 update_schedule_assignments(id, asg))
          => \A k \in DOMAIN sheets :
                 sheets[k].ym # ym => sheets'[k] = sheets[k]]_vars

=============================================================================
